---- MODULE Spec2Model ----
(***************************************************************************)
(* Node bootstrap of the Slurm cluster scripts (scripts/setup.py): the     *)
(* top-level run (__main__, main, setup_hybrid), configuration             *)
(* acquisition (get_config), the hook script runner (run_custom_scripts),  *)
(* the mount table reconciliation (mount_save_state_disk) and the          *)
(* recursive ownership remap (recursive_chown).                            *)
(***************************************************************************)
EXTENDS Integers, Sequences, FiniteSets, TLC

VARIABLES
    args,            \* parsed command line: [hybrid, bucket]
    pc,              \* position of the single-threaded run
    ip,              \* index of the next step of the dispatched role procedure
    source,          \* failures the configuration store still serves before it succeeds
    attempts,        \* outcome of every fetch attempt so far, in order
    slept,           \* seconds spent in time.sleep by get_config
    cfg,             \* active configuration (NoCfg until update_config)
    hybrid_setup,    \* lookup().hybrid_setup
    dispatched,      \* procedure main() picked from the role table
    steps,           \* steps completed so far, in order
    reg,             \* result of "sacctmgr add cluster"
    exc,             \* exception in flight or handled at the top level
    motd,            \* body of /etc/motd
    walls,           \* wall broadcasts issued, in order
    disk,            \* entries below dirs.custom_scripts
    custom_scripts,  \* list built by run_custom_scripts
    started,         \* hook scripts started: [script, key, timeout, outcome]
    device_name,     \* cfg.controller_state_disk.device_name
    fstab,           \* lines of /etc/fstab
    has_fs,          \* the state disk carries a filesystem signature
    mounted,         \* the state directory is mounted
    ms_calls,        \* calls of mount_save_state_disk that returned
    ms_raised,       \* calls of mount_save_state_disk that raised
    formats,         \* mkfs commands that completed on the state disk
    mm_calls,        \* calls of mount_munge_key_disk that returned
    mm_raised,       \* calls of mount_munge_key_disk that raised
    tree,            \* parent of every entry of the subtree given to recursive_chown
    owner,           \* [uid, gid] of every entry
    owner0,          \* ownership before the first recursive_chown
    owner_prev,      \* ownership before the latest recursive_chown
    chown_args,      \* [uid, gid, previous_uid, previous_gid]
    chown_calls,     \* calls of recursive_chown so far
    links,           \* what is at each link path configure_dirs reconciles
    links0,          \* the same, before the first configure_dirs
    cd_calls,        \* calls of configure_dirs so far, returned or raised
    cd_last,         \* how the latest configure_dirs ended
    keys,            \* the JWT key file and the munge key file
    key_calls,       \* key setups so far, returned or raised
    key_last,        \* the latest key setup: [key, end]
    ids,             \* slurm's ids: [cur_uid, cur_gid] on the node, [uid, gid] in hybrid_conf
    mig_owner,       \* [uid, gid] of every entry of every directory of the node
    mig_owner0,      \* the same, before change_uid_gid_slurm
    renames,         \* groupmod / usermod commands run, in order: [cmd, rc]
    mig_end,         \* how change_uid_gid_slurm ended
    ops_doc,         \* /etc/google-cloud-ops-agent/config.yaml
    ops_calls,       \* calls of setup_cloud_ops so far
    ops_last         \* how the latest setup_cloud_ops ended

runVars == <<args, pc, ip, source, attempts, slept, cfg, hybrid_setup, dispatched,
             steps, reg, exc, motd, walls>>
scriptVars == <<disk, custom_scripts, started>>
fstabVars == <<device_name, fstab, has_fs, mounted, ms_calls, ms_raised,
               formats, mm_calls, mm_raised>>
chownVars == <<tree, owner, owner0, owner_prev, chown_args, chown_calls>>
opsVars == <<ops_doc, ops_calls, ops_last>>
hostVars == <<links, links0, cd_calls, cd_last, keys, key_calls, key_last,
              ids, mig_owner, mig_owner0, renames, mig_end, opsVars>>
vars == <<runVars, scriptVars, fstabVars, chownVars, hostVars>>

-----------------------------------------------------------------------------
(* Bounds of the model. *)

\* failures the configuration store serves before it succeeds (get_config alone)
MaxFetchFailures == 2
\* the same, inside a whole run
MaxRunFetchFailures == 1
\* entries below dirs.custom_scripts (run_custom_scripts alone)
MaxFiles == 3
\* the same, inside a whole run
MaxRunFiles == 1
\* highest exit status of "sacctmgr add cluster"
MaxReturnCode == 2
\* lines of /etc/fstab before the first run
MaxFstabLines == 2
\* calls of mount_save_state_disk, returned or raised
MaxMountCalls == 3
\* entries of the subtree given to recursive_chown
MaxNodes == 3
\* calls of recursive_chown with the same arguments
MaxChownCalls == 2

-----------------------------------------------------------------------------
(* Configuration. *)

NoCfg == [role |-> "none"]
NoExc == [type |-> "none", site |-> "none", script |-> 0]
NoReg == [seen |-> FALSE, already |-> FALSE, returncode |-> 0]

Roles == {"controller", "compute", "login", "gpu"}

TimeoutKeys == {"controller_startup_scripts_timeout",
                "compute_startup_scripts_timeout",
                "login_startup_scripts_timeout"}

\* values a timeout key can carry when it is set
TimeoutValues == {-1, 0, 5}

\* cfg is a dictionary: a key is either absent or carries a value
TimeoutDicts == UNION {[K -> TimeoutValues] : K \in SUBSET TimeoutKeys}

\* the same value (or no value) under every key
UniformTimeoutDicts ==
    {[k \in {} |-> 0]} \cup {[k \in TimeoutKeys |-> 0]}

Config(role, timeouts, hybrid, state_disk, cloudsql) ==
    [role |-> role, timeouts |-> timeouts, hybrid |-> hybrid,
     state_disk |-> state_disk, cloudsql_secret |-> cloudsql]

\* configurations served to run_custom_scripts run alone
ScriptConfigs ==
    {Config(r, t, FALSE, FALSE, FALSE) : r \in Roles, t \in TimeoutDicts}

\* configurations served to a whole run: a flag varies for the role that reads it
RunConfigs ==
    {Config("controller", t, FALSE, d, s) :
        t \in UniformTimeoutDicts, d \in BOOLEAN, s \in BOOLEAN}
    \cup {Config("compute", t, h, FALSE, FALSE) :
        t \in UniformTimeoutDicts, h \in BOOLEAN}
    \cup {Config(r, t, FALSE, FALSE, FALSE) :
        r \in {"login", "gpu"}, t \in UniformTimeoutDicts}

instance_role(c) == c.role
is_controller(c) == c.role = "controller"
is_login_node(c) == c.role = "login"
is_hybrid_setup == hybrid_setup

-----------------------------------------------------------------------------
(* Hook scripts: run_custom_scripts. *)

\* An entry below dirs.custom_scripts: the category directory it is in, the
\* directories between that and the entry, the entry's name split at its
\* dots, and whether it is a regular file.
Entry(top, sub, name, isfile) ==
    [top |-> top, sub |-> sub, name |-> name, is_file |-> isfile]

\* the entries a node can hold, in the order rglob lists them
ScriptUniverse ==
    << Entry("controller.d", <<>>, <<"a", "sh">>, TRUE),
       Entry("controller.d", <<>>, <<"b", "sh", "disabled">>, TRUE),
       Entry("controller.d", <<"sub">>, <<"c", "sh">>, TRUE),
       Entry("compute.d", <<>>, <<"d", "sh">>, TRUE),
       Entry("compute.d", <<"controller.d">>, <<"e", "sh">>, TRUE),
       Entry("compute.d", <<>>, <<"f", "disabled">>, TRUE),
       Entry("nodeset.d", <<>>, <<"ns">>, FALSE),
       Entry("nodeset.d", <<"ns">>, <<"g", "sh">>, TRUE),
       Entry("login.d", <<>>, <<"h", "sh">>, TRUE),
       Entry("login.d", <<>>, <<"i", "disabled", "sh">>, TRUE) >>

Entries == {ScriptUniverse[i] : i \in DOMAIN ScriptUniverse}

Disks(n) == {d \in SUBSET Entries : Cardinality(d) <= n}

\* p.name.endswith(".disabled"): the name's last dot-separated part is
\* "disabled" and a dot precedes it
EndsWithDisabled(name) ==
    Len(name) >= 2 /\ name[Len(name)] = "disabled"

\* directories named on the path of an entry, below dirs.custom_scripts
DirParts(p) == <<p.top>> \o p.sub

\* "/<d>/" in str(script)
PathHas(p, d) == \E i \in DOMAIN DirParts(p) : DirParts(p)[i] = d

\* the directories run_custom_scripts scans for a role, in order
custom_dirs_all_on_controller(c) ==
    IF is_controller(c) THEN <<"controller.d", "compute.d", "nodeset.d", "login.d">>
    ELSE IF instance_role(c) = "compute" THEN <<"compute.d", "nodeset.d">>
    ELSE IF is_login_node(c) THEN <<"login.d">>
    ELSE <<>>
custom_dirs(c) ==
    IF is_controller(c) THEN <<"controller.d">>
    ELSE IF instance_role(c) = "compute" THEN <<"compute.d", "nodeset.d">>
    ELSE IF is_login_node(c) THEN <<"login.d">>
    ELSE <<>>

\* d.rglob("*"): every entry below d, in listing order
RECURSIVE RglobFrom(_, _, _)
RglobFrom(d, on_disk, i) ==
    IF i > Len(ScriptUniverse) THEN <<>>
    ELSE (IF ScriptUniverse[i] \in on_disk /\ ScriptUniverse[i].top = d
          THEN <<ScriptUniverse[i]>> ELSE <<>>)
         \o RglobFrom(d, on_disk, i + 1)

rglob(d, on_disk) == RglobFrom(d, on_disk, 1)

\* the filter of the list comprehension
SelectedMissingSuffixCheck(p) == p.is_file
Selected(p) == p.is_file /\ ~EndsWithDisabled(p.name)

RECURSIVE Keep(_)
Keep(s) ==
    IF s = <<>> THEN <<>>
    ELSE (IF Selected(Head(s)) THEN <<Head(s)>> ELSE <<>>) \o Keep(Tail(s))

RECURSIVE Discover(_, _, _)
Discover(dirs, on_disk, i) ==
    IF i > Len(dirs) THEN <<>>
    ELSE Keep(rglob(dirs[i], on_disk)) \o Discover(dirs, on_disk, i + 1)

\* the key whose timeout a script runs under ("none": the fixed 300)
TimeoutKey(p) ==
    IF PathHas(p, "controller.d") THEN "controller_startup_scripts_timeout"
    ELSE IF PathHas(p, "compute.d") \/ PathHas(p, "nodeset.d")
         THEN "compute_startup_scripts_timeout"
    ELSE IF PathHas(p, "login.d") THEN "login_startup_scripts_timeout"
    ELSE "none"

DefaultTimeout == 300

\* cfg.get(key, default)
CfgGet(c, key, default) ==
    IF key \in DOMAIN c.timeouts THEN c.timeouts[key] ELSE default

Unbounded == [bounded |-> FALSE, secs |-> 0]
Bounded(t) == [bounded |-> TRUE, secs |-> t]

\* timeout = None if not timeout or timeout < 0 else timeout
ResolveTimeoutZeroFails(t) == IF t < 0 THEN Unbounded ELSE Bounded(t)
ResolveTimeout(t) == IF t = 0 \/ t < 0 THEN Unbounded ELSE Bounded(t)

ScriptTimeout(c, p) ==
    IF TimeoutKey(p) = "none" THEN ResolveTimeout(DefaultTimeout)
    ELSE ResolveTimeout(CfgGet(c, TimeoutKey(p), DefaultTimeout))

\* what running one script can end in: a zero status, a non-zero status
\* (check_returncode raises CalledProcessError), OSError, another error, and,
\* under a timeout, TimeoutExpired
ScriptOutcomes(t) ==
    {"ok", "nonzero", "oserror", "error"}
    \cup (IF t.bounded THEN {"timeout"} ELSE {})

ExcOfOutcome(o) ==
    CASE o = "nonzero" -> "CalledProcessError"
      [] o = "timeout" -> "TimeoutExpired"
      [] o = "oserror" -> "OSError"
      [] OTHER -> "Exception"

\* whether the loop body raises on an outcome
ScriptRaisesUnchecked(o) == o \in {"timeout", "oserror", "error"}
ScriptRaises(o) == o # "ok"

\* run_custom_scripts, up to its loop: the list of scripts is built
run_custom_scripts ==
    /\ pc = "run_custom_scripts"
    /\ custom_scripts' = Discover(custom_dirs(cfg), disk, 1)
    /\ started' = <<>>
    /\ pc' = "scripts_loop"
    /\ UNCHANGED <<args, ip, source, attempts, slept, cfg, hybrid_setup,
                   dispatched, steps, reg, exc, motd, walls, disk>>
    /\ UNCHANGED <<fstabVars, chownVars, hostVars>>

\* one iteration of the loop: the next script runs to its end
RunScript ==
    /\ pc = "scripts_loop"
    /\ Len(started) < Len(custom_scripts)
    /\ LET p == custom_scripts[Len(started) + 1]
           t == ScriptTimeout(cfg, p)
       IN \E o \in ScriptOutcomes(t) :
            /\ started' = Append(started,
                   [script |-> p, key |-> TimeoutKey(p), timeout |-> t,
                    outcome |-> o])
            /\ IF ScriptRaises(o)
               THEN /\ exc' = [type |-> ExcOfOutcome(o),
                             site |-> "run_custom_scripts",
                             script |-> Len(started) + 1]
                    /\ pc' = "except"
               ELSE /\ exc' = exc
                    /\ pc' = pc
    /\ UNCHANGED <<args, ip, source, attempts, slept, cfg, hybrid_setup,
                   dispatched, steps, reg, motd, walls, disk, custom_scripts>>
    /\ UNCHANGED <<fstabVars, chownVars, hostVars>>

\* the loop is over: run_custom_scripts returns to the role procedure
ScriptsReturn ==
    /\ pc = "scripts_loop"
    /\ Len(started) = Len(custom_scripts)
    /\ pc' = "role"
    /\ ip' = ip + 1
    /\ steps' = Append(steps, "run_custom_scripts")
    /\ UNCHANGED <<args, source, attempts, slept, cfg, hybrid_setup,
                   dispatched, reg, exc, motd, walls>>
    /\ UNCHANGED <<scriptVars, fstabVars, chownVars, hostVars>>

-----------------------------------------------------------------------------
(* Configuration acquisition: get_config. *)

sleep_seconds == 5

FetchFailures == {"DeffetiveStoredConfigError", "Exception"}

\* failure plans of the store: it fails with these, in order, then succeeds
RECURSIVE Plans(_)
Plans(n) ==
    IF n = 0 THEN {<<>>}
    ELSE Plans(n - 1)
         \cup {Append(s, f) : s \in {q \in Plans(n - 1) : Len(q) = n - 1},
                              f \in FetchFailures}

\* the plans of a store that is only ever not ready
RunPlans(n) ==
    {p \in Plans(n) : \A i \in DOMAIN p : p[i] = "DeffetiveStoredConfigError"}

\* whether the loop reaches time.sleep after an attempt
SleepAfterUnexpectedOnly(outcome) == outcome = "Exception"
SleepAfter(outcome) == outcome # "ok"

\* the bucket get_config is called with: main() passes none
Bucket == IF args.hybrid THEN args.bucket ELSE "None"

\* where get_config returns to
AfterConfig == IF args.hybrid THEN "gen_controller_configs" ELSE "setup_cloud_ops"

\* one pass of the while loop, up to the break or the except clause
get_config_not_ready_only ==
    /\ pc = "get_config"
    /\ IF source = <<>>
       THEN \E c \in RunConfigs :
              /\ cfg' = c
              /\ hybrid_setup' = (IF Bucket # "None" THEN TRUE ELSE hybrid_setup)
              /\ attempts' = Append(attempts, "ok")
              /\ pc' = AfterConfig
              /\ UNCHANGED <<source, exc>>
       ELSE /\ attempts' = Append(attempts, Head(source))
            /\ source' = Tail(source)
            /\ IF Head(source) = "DeffetiveStoredConfigError"
               THEN pc' = "sleep" /\ exc' = exc
               ELSE /\ pc' = "except"
                    /\ exc' = [type |-> "Exception", site |-> "get_config",
                               script |-> 0]
            /\ UNCHANGED <<cfg, hybrid_setup>>
    /\ UNCHANGED <<args, ip, slept, dispatched, steps, reg, motd, walls>>
    /\ UNCHANGED <<scriptVars, fstabVars, chownVars, hostVars>>
get_config ==
    /\ pc = "get_config"
    /\ IF source = <<>>
       THEN \E c \in RunConfigs :
              /\ cfg' = c
              /\ hybrid_setup' = (IF Bucket # "None" THEN TRUE ELSE hybrid_setup)
              /\ attempts' = Append(attempts, "ok")
              /\ pc' = AfterConfig
              /\ source' = source
       ELSE /\ attempts' = Append(attempts, Head(source))
            /\ source' = Tail(source)
            /\ pc' = IF SleepAfter(Head(source)) THEN "sleep" ELSE "get_config"
            /\ UNCHANGED <<cfg, hybrid_setup>>
    /\ UNCHANGED <<args, ip, slept, dispatched, steps, reg, exc, motd, walls>>
    /\ UNCHANGED <<scriptVars, fstabVars, chownVars, hostVars>>

\* time.sleep(sleep_seconds), then the loop starts over
Sleep ==
    /\ pc = "sleep"
    /\ slept' = slept + sleep_seconds
    /\ pc' = "get_config"
    /\ UNCHANGED <<args, ip, source, attempts, cfg, hybrid_setup, dispatched,
                   steps, reg, exc, motd, walls>>
    /\ UNCHANGED <<scriptVars, fstabVars, chownVars, hostVars>>

-----------------------------------------------------------------------------
(* The run: __main__, main, setup_hybrid, the role procedures. *)

\* exceptions a step built on util.run can raise
StepExcTypes == {"CalledProcessError", "TimeoutExpired", "Exception"}

Raise(type, site) ==
    /\ exc' = [type |-> type, site |-> site, script |-> 0]
    /\ pc' = "except"

\* if args.hybrid: setup_hybrid(args.bucket) else: main()
Entry_main ==
    /\ pc = "entry"
    /\ pc' = IF args.hybrid THEN "get_config" ELSE "start_motd"
    /\ UNCHANGED <<args, ip, source, attempts, slept, cfg, hybrid_setup,
                   dispatched, steps, reg, exc, motd, walls>>
    /\ UNCHANGED <<scriptVars, fstabVars, chownVars, hostVars>>

start_motd ==
    /\ pc = "start_motd"
    /\ motd' = "pending"
    /\ walls' = Append(walls, "pending")
    /\ \/ /\ pc' = "get_config"
          /\ steps' = Append(steps, "start_motd")
          /\ exc' = exc
       \/ /\ \E t \in StepExcTypes : Raise(t, "start_motd")
          /\ steps' = steps
    /\ UNCHANGED <<args, ip, source, attempts, slept, cfg, hybrid_setup,
                   dispatched, reg>>
    /\ UNCHANGED <<scriptVars, fstabVars, chownVars, hostVars>>

\* a step whose effect on the modelled state is only that it ran or raised
PlainStep(name, next_pc, next_ip) ==
    /\ \/ /\ steps' = Append(steps, name)
          /\ pc' = next_pc
          /\ ip' = next_ip
          /\ exc' = exc
       \/ /\ \E t \in StepExcTypes : Raise(t, name)
          /\ steps' = steps
          /\ ip' = ip
    /\ UNCHANGED <<args, source, attempts, slept, cfg, hybrid_setup,
                   dispatched, reg, motd, walls>>

setup_cloud_ops ==
    /\ pc = "setup_cloud_ops"
    /\ PlainStep("setup_cloud_ops", "configure_dirs", ip)
    /\ UNCHANGED <<scriptVars, fstabVars, chownVars, hostVars>>

configure_dirs ==
    /\ pc = "configure_dirs"
    /\ PlainStep("configure_dirs", "dispatch", ip)
    /\ UNCHANGED <<scriptVars, fstabVars, chownVars, hostVars>>

\* setup_hybrid after get_config: conf.gen_controller_configs(lookup())
gen_controller_configs ==
    /\ pc = "gen_controller_configs"
    /\ PlainStep("gen_controller_configs", "hybrid_done", ip)
    /\ UNCHANGED <<scriptVars, fstabVars, chownVars, hostVars>>

\* the table of main(): {...}.get(role, lambda: log.fatal(...))
RoleProcedureDefaultCompute(role) ==
    CASE role = "controller" -> "setup_controller"
      [] role = "login" -> "setup_login"
      [] OTHER -> "setup_compute"
RoleProcedure(role) ==
    CASE role = "controller" -> "setup_controller"
      [] role = "compute" -> "setup_compute"
      [] role = "login" -> "setup_login"
      [] OTHER -> "log_fatal"

setup_controller_steps_exports_early(c) ==
    <<"chown_config", "install_custom_scripts", "gen_controller_configs">>
    \o (IF c.state_disk
        THEN <<"mount_save_state_disk", "mount_munge_key_disk">> ELSE <<>>)
    \o <<"setup_jwt_key", "setup_munge_key", "setup_sudoers",
         "setup_network_storage", "run_custom_scripts">>
    \o (IF ~c.cloudsql_secret THEN <<"configure_mysql">> ELSE <<>>)
    \o <<"slurmdbd", "sacctmgr_add_cluster", "nfs_server", "setup_nfs_exports",
         "slurmctld", "slurmrestd", "slurmcmd_timer", "status",
         "sync_slurm", "slurm_load_bq_timer", "setup_maintenance_script">>

setup_controller_steps(c) ==
    <<"chown_config", "install_custom_scripts", "gen_controller_configs">>
    \o (IF c.state_disk
        THEN <<"mount_save_state_disk", "mount_munge_key_disk">> ELSE <<>>)
    \o <<"setup_jwt_key", "setup_munge_key", "setup_sudoers",
         "setup_network_storage", "run_custom_scripts">>
    \o (IF ~c.cloudsql_secret THEN <<"configure_mysql">> ELSE <<>>)
    \o <<"slurmdbd", "sacctmgr_add_cluster", "slurmctld", "slurmrestd",
         "nfs_server", "setup_nfs_exports", "slurmcmd_timer", "status",
         "sync_slurm", "slurm_load_bq_timer", "setup_maintenance_script">>

setup_compute_steps(c) ==
    (IF c.hybrid THEN <<"change_uid_gid_slurm">> ELSE <<>>)
    \o <<"chown_config", "update_system_config", "install_custom_scripts",
         "setup_nss_slurm", "setup_network_storage", "nvidia_smi",
         "run_custom_scripts", "setup_sudoers", "restart_munge", "slurmd",
         "slurmcmd_timer", "status">>

setup_login_steps(c) ==
    <<"update_system_config", "install_custom_scripts",
      "setup_network_storage", "setup_sudoers", "restart_munge", "sackd",
      "slurmcmd_timer", "run_custom_scripts", "status">>

RoleSteps(proc, c) ==
    CASE proc = "setup_controller" -> setup_controller_steps(c)
      [] proc = "setup_compute" -> setup_compute_steps(c)
      [] proc = "setup_login" -> setup_login_steps(c)
      [] OTHER -> <<>>

\* steps that have an action of their own
OwnSteps == {"install_custom_scripts", "run_custom_scripts",
             "sacctmgr_add_cluster", "mount_save_state_disk",
             "mount_munge_key_disk", "change_uid_gid_slurm"}

AtStep(name) ==
    /\ pc = "role"
    /\ ip <= Len(RoleSteps(dispatched, cfg))
    /\ RoleSteps(dispatched, cfg)[ip] = name

\* main(): look the role up and call what the table gives
Dispatch ==
    /\ pc = "dispatch"
    /\ dispatched' = RoleProcedure(instance_role(cfg))
    /\ IF dispatched' = "log_fatal"
       THEN pc' = "end_motd" /\ ip' = ip
       ELSE pc' = "role" /\ ip' = 1
    /\ UNCHANGED <<args, source, attempts, slept, cfg, hybrid_setup, steps,
                   reg, exc, motd, walls>>
    /\ UNCHANGED <<scriptVars, fstabVars, chownVars, hostVars>>

\* any step of a role procedure without an action of its own
RoleStep ==
    /\ pc = "role"
    /\ ip <= Len(RoleSteps(dispatched, cfg))
    /\ RoleSteps(dispatched, cfg)[ip] \notin OwnSteps
    /\ PlainStep(RoleSteps(dispatched, cfg)[ip], "role", ip + 1)
    /\ UNCHANGED <<scriptVars, fstabVars, chownVars, hostVars>>

\* util.install_custom_scripts(): the hook scripts land on the node
install_custom_scripts ==
    /\ AtStep("install_custom_scripts")
    /\ \/ /\ disk' \in Disks(MaxRunFiles)
          /\ steps' = Append(steps, "install_custom_scripts")
          /\ ip' = ip + 1
          /\ UNCHANGED <<pc, exc>>
       \/ /\ \E t \in StepExcTypes : Raise(t, "install_custom_scripts")
          /\ UNCHANGED <<disk, steps, ip>>
    /\ UNCHANGED <<args, source, attempts, slept, cfg, hybrid_setup,
                   dispatched, reg, motd, walls, custom_scripts, started>>
    /\ UNCHANGED <<fstabVars, chownVars, hostVars>>

\* the role procedure calls run_custom_scripts()
CallScripts ==
    /\ AtStep("run_custom_scripts")
    /\ pc' = "run_custom_scripts"
    /\ UNCHANGED <<args, ip, source, attempts, slept, cfg, hybrid_setup,
                   dispatched, steps, reg, exc, motd, walls>>
    /\ UNCHANGED <<scriptVars, fstabVars, chownVars, hostVars>>

\* whether the registration result raises:
\* if "already exists" in stdout: log; elif returncode > 1: check_returncode()
RegistrationRaisesOnStatus(already, returncode) == returncode > 1
RegistrationRaises(already, returncode) == ~already /\ returncode > 1

\* setup_controller: sacctmgr -i add cluster <name>, timeout 30, check=False
sacctmgr_add_cluster ==
    /\ AtStep("sacctmgr_add_cluster")
    /\ \/ \E already \in BOOLEAN, rc \in 0..MaxReturnCode :
            /\ reg' = [seen |-> TRUE, already |-> already, returncode |-> rc]
            /\ IF RegistrationRaises(already, rc)
               THEN /\ Raise("CalledProcessError", "sacctmgr_add_cluster")
                    /\ UNCHANGED <<steps, ip>>
               ELSE /\ steps' = Append(steps, "sacctmgr_add_cluster")
                    /\ ip' = ip + 1
                    /\ UNCHANGED <<pc, exc>>
       \/ /\ Raise("TimeoutExpired", "sacctmgr_add_cluster")
          /\ UNCHANGED <<reg, steps, ip>>
    /\ UNCHANGED <<args, source, attempts, slept, cfg, hybrid_setup,
                   dispatched, motd, walls>>
    /\ UNCHANGED <<scriptVars, fstabVars, chownVars, hostVars>>

\* the role procedure returns to main()
RoleReturn ==
    /\ pc = "role"
    /\ ip > Len(RoleSteps(dispatched, cfg))
    /\ pc' = "end_motd"
    /\ UNCHANGED <<args, ip, source, attempts, slept, cfg, hybrid_setup,
                   dispatched, steps, reg, exc, motd, walls>>
    /\ UNCHANGED <<scriptVars, fstabVars, chownVars, hostVars>>

\* end_motd(): the banner, the broadcast, and the /home note off the controller
end_motd_home_on_every_role ==
    /\ pc = "end_motd"
    /\ motd' = "complete"
    /\ \/ /\ walls' = Append(walls, "complete")
          /\ \E t \in StepExcTypes : Raise(t, "end_motd")
          /\ steps' = steps
       \/ /\ walls' = walls \o <<"complete", "home">>
          /\ \E t \in StepExcTypes : Raise(t, "end_motd")
          /\ steps' = steps
       \/ /\ walls' = walls \o <<"complete", "home">>
          /\ pc' = "complete"
          /\ steps' = Append(steps, "end_motd")
          /\ exc' = exc
    /\ UNCHANGED <<args, ip, source, attempts, slept, cfg, hybrid_setup,
                   dispatched, reg>>
    /\ UNCHANGED <<scriptVars, fstabVars, chownVars, hostVars>>
end_motd ==
    /\ pc = "end_motd"
    /\ motd' = "complete"
    /\ \/ /\ walls' = Append(walls, "complete")
          /\ \E t \in StepExcTypes : Raise(t, "end_motd")
          /\ steps' = steps
       \/ /\ ~is_controller(cfg)
          /\ walls' = walls \o <<"complete", "home">>
          /\ \E t \in StepExcTypes : Raise(t, "end_motd")
          /\ steps' = steps
       \/ /\ walls' = walls \o (IF is_controller(cfg) THEN <<"complete">>
                                ELSE <<"complete", "home">>)
          /\ pc' = "complete"
          /\ steps' = Append(steps, "end_motd")
          /\ exc' = exc
    /\ UNCHANGED <<args, ip, source, attempts, slept, cfg, hybrid_setup,
                   dispatched, reg>>
    /\ UNCHANGED <<scriptVars, fstabVars, chownVars, hostVars>>

\* whether the except clause that catches an exception calls failed_motd()
HandlerSignalsClassifiedOnly(type) ==
    type \in {"TimeoutExpired", "CalledProcessError"}
HandlerSignals(type) == TRUE

\* the except clauses of __main__, and failed_motd()
Handler ==
    /\ pc = "except"
    /\ IF HandlerSignals(exc.type) /\ ~is_hybrid_setup
       THEN /\ motd' = "failed"
            /\ walls' = Append(walls, "failed")
            /\ pc' \in {"failed", "crashed"}
       ELSE /\ pc' = "failed"
            /\ UNCHANGED <<motd, walls>>
    /\ UNCHANGED <<args, ip, source, attempts, slept, cfg, hybrid_setup,
                   dispatched, steps, reg, exc>>
    /\ UNCHANGED <<scriptVars, fstabVars, chownVars, hostVars>>

-----------------------------------------------------------------------------
(* The mount table: mount_save_state_disk. *)

\* A line of /etc/fstab: its fields, and whether a newline ends it (only the
\* last line of a file can lack one).
Line(fields, nl) == [fields |-> fields, nl |-> nl]

RECURSIVE Join(_)
Join(fields) ==
    IF Len(fields) = 0 THEN ""
    ELSE IF Len(fields) = 1 THEN fields[1]
    ELSE fields[1] \o " " \o Join(Tail(fields))

\* the string f.readlines() gives for a line
LineText(l) == Join(l.fields) \o (IF l.nl THEN "\n" ELSE "")

readlines(file) == [i \in DOMAIN file |-> LineText(file[i])]

DeviceNames == {"state", "data"}
disk_name(dev) == "/dev/disk/by-id/google-" \o dev
mount_point == "/var/spool/slurm"
fs_type == "ext4"

\* fstab_entry = f"{disk_name} {mount_point} {fs_type}"
fstab_entry(dev) == disk_name(dev) \o " " \o mount_point \o " " \o fs_type

\* fstab_entry not in fstab, on the list readlines() returned
EntryAbsent(dev, file) ==
    ~\E i \in DOMAIN readlines(file) : readlines(file)[i] = fstab_entry(dev)

\* open("/etc/fstab", "a").write(<fields> + "\n"): a new line, or the rest of
\* a last line that no newline ended
AppendLine(file, fields) ==
    IF file # <<>> /\ ~file[Len(file)].nl
    THEN LET last == file[Len(file)].fields
         IN SubSeq(file, 1, Len(file) - 1)
            \o <<Line(SubSeq(last, 1, Len(last) - 1)
                      \o <<last[Len(last)] \o fields[1]>>
                      \o Tail(fields), TRUE)>>
    ELSE Append(file, Line(fields, TRUE))

\* the file after the presence check and the append
ReconcileFstab(dev, file) ==
    IF EntryAbsent(dev, file)
    THEN AppendLine(file, <<disk_name(dev), mount_point, fs_type, "defaults", "0", "0">>)
    ELSE file

\* how far mount_save_state_disk gets: each util.run in it can raise
MountOutcomes == {"ok", "probe_raises", "mkfs_raises", "reload_raises", "mount_raises"}

\* the outcomes in which mount_save_state_disk got past the mkfs step
PastMkfs == {"ok", "reload_raises", "mount_raises"}

\* if "filesystem" not in file_output: mkfs runs
FormatsAlways(fs) == TRUE
Formats(fs) == ~fs

\* the effect of mount_save_state_disk on the disk and the mount table
MountEffect(o) ==
    /\ formats' = formats + (IF Formats(has_fs) /\ o \in PastMkfs THEN 1 ELSE 0)
    /\ has_fs' = (has_fs \/ (Formats(has_fs) /\ o \in PastMkfs))
    /\ fstab' = IF o \in PastMkfs
                THEN ReconcileFstab(device_name, fstab) ELSE fstab
    /\ mounted' = (mounted \/ o = "ok")
    /\ device_name' = device_name

\* mount_save_state_disk(), called on its own, any number of times
mount_save_state_disk ==
    /\ pc = "mount_save_state_disk"
    /\ ms_calls + ms_raised < MaxMountCalls
    /\ \E o \in MountOutcomes :
         /\ o = "mkfs_raises" => Formats(has_fs)
         /\ MountEffect(o)
         /\ ms_calls' = ms_calls + (IF o = "ok" THEN 1 ELSE 0)
         /\ ms_raised' = ms_raised + (IF o = "ok" THEN 0 ELSE 1)
    /\ UNCHANGED <<mm_calls, mm_raised>>
    /\ UNCHANGED <<runVars, scriptVars, chownVars, hostVars>>

\* setup_controller calls mount_save_state_disk()
RoleMount ==
    /\ AtStep("mount_save_state_disk")
    /\ \E o \in MountOutcomes :
         /\ o = "mkfs_raises" => Formats(has_fs)
         /\ MountEffect(o)
         /\ IF o = "ok"
            THEN /\ steps' = Append(steps, "mount_save_state_disk")
                 /\ ip' = ip + 1
                 /\ ms_calls' = ms_calls + 1
                 /\ UNCHANGED <<pc, exc, ms_raised>>
            ELSE /\ \E t \in StepExcTypes : Raise(t, "mount_save_state_disk")
                 /\ ms_raised' = ms_raised + 1
                 /\ UNCHANGED <<steps, ip, ms_calls>>
    /\ UNCHANGED <<mm_calls, mm_raised>>
    /\ UNCHANGED <<args, source, attempts, slept, cfg, hybrid_setup,
                   dispatched, reg, motd, walls>>
    /\ UNCHANGED <<scriptVars, chownVars, hostVars>>

\* mount_munge_key_disk: the bind mount of the munge directory
state_disk_dir == "/var/spool/slurm/munge"
munge_mount_point == "/etc/munge"

\* fstab_entry = f"{state_disk_dir} {mount_point}"
munge_fstab_entry == state_disk_dir \o " " \o munge_mount_point

MungeLine == <<state_disk_dir, munge_mount_point, "none", "bind", "0", "0">>

\* if fstab_entry not in fstab (the list readlines() returned): append
ReconcileMungeFstab(file) ==
    IF ~\E i \in DOMAIN readlines(file) : readlines(file)[i] = munge_fstab_entry
    THEN AppendLine(file, MungeLine) ELSE file

\* the effect of mount_munge_key_disk that gets as far as o: each util.run
\* in it can raise ("bind_raises", "reload_raises")
MungeEffect(o) ==
    /\ fstab' = IF o = "bind_raises" THEN fstab ELSE ReconcileMungeFstab(fstab)
    /\ mm_calls' = mm_calls + (IF o = "ok" THEN 1 ELSE 0)
    /\ mm_raised' = mm_raised + (IF o = "ok" THEN 0 ELSE 1)
    /\ UNCHANGED <<device_name, has_fs, mounted, ms_calls, ms_raised, formats>>

\* mount_munge_key_disk(), called on its own, any number of times
mount_munge_key_disk ==
    /\ pc = "mount_munge_key_disk"
    /\ mm_calls + mm_raised < MaxMountCalls
    /\ \E o \in {"ok", "bind_raises", "reload_raises"} : MungeEffect(o)
    /\ UNCHANGED <<runVars, scriptVars, chownVars, hostVars>>

\* setup_controller calls mount_munge_key_disk()
RoleMungeMount ==
    /\ AtStep("mount_munge_key_disk")
    /\ \E o \in {"ok", "bind_raises", "reload_raises"} :
         /\ MungeEffect(o)
         /\ IF o = "ok"
            THEN /\ steps' = Append(steps, "mount_munge_key_disk")
                 /\ ip' = ip + 1
                 /\ UNCHANGED <<pc, exc>>
            ELSE /\ \E t \in StepExcTypes : Raise(t, "mount_munge_key_disk")
                 /\ UNCHANGED <<steps, ip>>
    /\ UNCHANGED <<args, source, attempts, slept, cfg, hybrid_setup,
                   dispatched, reg, motd, walls>>
    /\ UNCHANGED <<scriptVars, chownVars, hostVars>>

\* lines /etc/fstab can hold before the first run
RootLine == <<"UUID=root", "/", "ext4", "defaults", "0", "0">>
FullLines(dev) ==
    {Line(RootLine, TRUE),
     Line(<<disk_name(dev), mount_point, fs_type, "defaults", "0", "0">>, TRUE),
     Line(<<disk_name(dev), mount_point, fs_type>>, TRUE)}
LastLines(dev) ==
    FullLines(dev)
    \cup {Line(RootLine, FALSE), Line(<<disk_name(dev), mount_point, fs_type>>, FALSE)}

RECURSIVE FullFiles(_, _)
FullFiles(dev, n) ==
    IF n = 0 THEN {<<>>}
    ELSE {Append(f, l) : f \in FullFiles(dev, n - 1), l \in FullLines(dev)}

Files(dev, n) ==
    {<<>>} \cup UNION {{Append(f, l) : f \in FullFiles(dev, k - 1), l \in LastLines(dev)} :
                        k \in 1..n}

\* the same for the bind mount of the munge directory: files of up to n
\* lines, of which only the last can lack its newline
MungeFiles(n) ==
    LET full == {Line(RootLine, TRUE), Line(MungeLine, TRUE),
                 Line(<<state_disk_dir, munge_mount_point>>, TRUE)}
        last == full \cup {Line(RootLine, FALSE),
                           Line(<<state_disk_dir, munge_mount_point>>, FALSE)}
    IN {f \in UNION {[1..k -> last] : k \in 0..n} :
           \A i \in DOMAIN f : i < Len(f) => f[i] \in full}

-----------------------------------------------------------------------------
(* Ownership: _my_chown and recursive_chown. *)

\* a subtree is the parent of each of its entries; entry 1 is the root
Trees(n) ==
    UNION {{t \in [1..k -> 0..k] :
              /\ t[1] = 0
              /\ \A m \in 2..k : t[m] >= 1 /\ t[m] < m} : k \in 1..n}

Children(t, n) == {m \in DOMAIN t : t[m] = n}

\* an entry with entries below it is a directory, and so is the root
IsDir(t, n) == n = 1 \/ Children(t, n) # {}

RECURSIVE Sorted(_)
Sorted(S) ==
    IF S = {} THEN <<>>
    ELSE LET m == CHOOSE x \in S : \A y \in S : x <= y
         IN <<m>> \o Sorted(S \ {m})

\* os.walk(path): for every directory, top down, its directories and then
\* its files
RECURSIVE Walk(_, _)
RECURSIVE WalkEach(_, _)
Walk(t, n) ==
    LET ds == Sorted({m \in Children(t, n) : IsDir(t, m)})
        fs == Sorted({m \in Children(t, n) : ~IsDir(t, m)})
    IN ds \o fs \o WalkEach(t, ds)
WalkEach(t, ds) ==
    IF ds = <<>> THEN <<>> ELSE Walk(t, Head(ds)) \o WalkEach(t, Tail(ds))

NoId == -1

ChownArgs(uid, gid, previous_uid, previous_gid) ==
    [uid |-> uid, gid |-> gid, previous_uid |-> previous_uid,
     previous_gid |-> previous_gid]

\* os.chown(path, uid, gid): -1 leaves an id as it is
os_chown(own, path, uid, gid) ==
    [own EXCEPT ![path] = [uid |-> IF uid = NoId THEN @.uid ELSE uid,
                           gid |-> IF gid = NoId THEN @.gid ELSE gid]]

_my_chown_unguarded(own, path, a) == os_chown(own, path, a.uid, a.gid)
_my_chown_stat_gid(own, path, a) ==
    LET my_uid == IF a.previous_uid = NoId \/ own[path].gid = a.previous_uid
                  THEN a.uid ELSE NoId
        my_gid == IF a.previous_gid = NoId \/ own[path].gid = a.previous_gid
                  THEN a.gid ELSE NoId
    IN IF my_uid # NoId \/ my_gid # NoId
       THEN os_chown(own, path, my_uid, my_gid) ELSE own
_my_chown(own, path, a) ==
    LET my_uid == IF a.previous_uid = NoId \/ own[path].uid = a.previous_uid
                  THEN a.uid ELSE NoId
        my_gid == IF a.previous_gid = NoId \/ own[path].gid = a.previous_gid
                  THEN a.gid ELSE NoId
    IN IF my_uid # NoId \/ my_gid # NoId
       THEN os_chown(own, path, my_uid, my_gid) ELSE own

RECURSIVE ChownEach(_, _, _)
ChownEach(own, paths, a) ==
    IF paths = <<>> THEN own
    ELSE ChownEach(_my_chown(own, Head(paths), a), Tail(paths), a)

\* the ownership after recursive_chown(path, uid, gid, previous_uid, previous_gid)
recursive_chown(own, t, a) ==
    ChownEach(_my_chown(own, 1, a), Walk(t, 1), a)

Uids == {10, 20, 30}
Gids == {10, 20}

ChownArgSet ==
    {ChownArgs(99, 10, 10, 20), ChownArgs(20, 99, 10, 20),
     ChownArgs(99, 99, NoId, NoId), ChownArgs(99, 10, 10, NoId),
     ChownArgs(99, 10, NoId, 20), ChownArgs(10, 20, 10, 20)}

\* recursive_chown called again with the same arguments
CallChown ==
    /\ pc = "recursive_chown"
    /\ chown_calls < MaxChownCalls
    /\ owner_prev' = owner
    /\ owner' = recursive_chown(owner, tree, chown_args)
    /\ chown_calls' = chown_calls + 1
    /\ UNCHANGED <<tree, owner0, chown_args>>
    /\ UNCHANGED <<runVars, scriptVars, fstabVars, hostVars>>

-----------------------------------------------------------------------------
(* Symbolic links: configure_dirs. *)

\* calls of configure_dirs, returned or raised
MaxDirCalls == 2

\* the link paths of configure_dirs, in the order of its loop
LinkPaths == <<"/etc/slurm", "scripts/etc", "scripts/log">>

\* the target of each pair
LinkTarget(sl) == IF sl = "scripts/log" THEN "dirs.log" ELSE "slurmdirs.etc"

NoLink == [kind |-> "absent", to |-> "none"]
Symlink(tgt) == [kind |-> "symlink", to |-> tgt]

\* Path.exists() follows a symbolic link. The directories that exist when
\* the loop starts are the targets (util.mkdirp made them) and one other
\* directory; "/old/gone" no longer exists.
PathExists(l) ==
    \/ l.kind = "dir"
    \/ l.kind = "symlink" /\ l.to \in {"slurmdirs.etc", "dirs.log", "/old/live"}

\* if sl.exists() and sl.is_symlink(): sl.unlink()
Unlinked(l) == IF PathExists(l) /\ l.kind = "symlink" THEN NoLink ELSE l

\* the loop over the pairs, from pair i on: the links it leaves and how it
\* ends; sl.symlink_to(tgt) raises FileExistsError when something is at sl
RECURSIVE ReconcileLinks(_, _)
ReconcileLinks(ls, i) ==
    IF i > Len(LinkPaths) THEN [links |-> ls, end |-> "ok"]
    ELSE LET sl == LinkPaths[i]
             l == Unlinked(ls[sl])
         IN IF l.kind # "absent"
            THEN [links |-> [ls EXCEPT ![sl] = l], end |-> "FileExistsError"]
            ELSE ReconcileLinks([ls EXCEPT ![sl] = Symlink(LinkTarget(sl))], i + 1)

\* configure_dirs(), called on its own, any number of times; outside the
\* loop, util.mkdirp or util.chown_slurm can raise before it and
\* shutil.copyfile or os.chmod after it
CallConfigureDirs ==
    /\ pc = "call_configure_dirs"
    /\ cd_calls < MaxDirCalls
    /\ cd_calls' = cd_calls + 1
    /\ \E o \in {"ok", "mkdirp_raises", "copyfile_raises"} :
         IF o = "mkdirp_raises"
         THEN links' = links /\ cd_last' = o
         ELSE LET r == ReconcileLinks(links, 1)
              IN /\ links' = r.links
                 /\ cd_last' = IF r.end = "ok" THEN o ELSE r.end
    /\ UNCHANGED <<links0, keys, key_calls, key_last,
                   ids, mig_owner, mig_owner0, renames, mig_end, opsVars>>
    /\ UNCHANGED <<runVars, scriptVars, fstabVars, chownVars>>

-----------------------------------------------------------------------------
(* Secret keys: setup_jwt_key and setup_munge_key. *)

\* key setups, returned or raised
MaxKeySetups == 3

KeyNames == {"jwt", "munge"}

\* util.chown_slurm(jwt_key); shutil.chown(munge_key, user="munge", group="munge")
KeyOwner(k) == IF k = "jwt" THEN "slurm" ELSE "munge"

NoKey == [exists |-> FALSE, content |-> "none", owner |-> "none", mode |-> "none"]
KeyFile(c, o, m) ==
    [exists |-> TRUE, content |-> c, owner |-> o, mode |-> m]

\* what /dev/urandom and /dev/random can give
KeyContents == {"k1", "k2"}

\* the else branch of "if key.exists()": the key is generated
KeyMissingAlways(key) == TRUE
KeyMissing(key) == ~key.exists

\* dd writes to the file: a new file is root's, an old one keeps its owner
Written(key, c) ==
    IF key.exists THEN [key EXCEPT !.content = c]
    ELSE KeyFile(c, "root", "0644")

\* the key file after a setup of key k that ends in o, with c read from the
\* entropy source: dd can raise before or after it created the file, the
\* ownership change can raise, and so can "systemctl restart munge"
SetupKey(key, k, o, c) ==
    LET gen == KeyMissing(key)
        made == IF gen THEN Written(key, c) ELSE key
    IN CASE o = "dd_raises_nofile" -> key
         [] o = "dd_raises_partial" -> Written(key, "partial")
         [] o = "chown_raises" -> made
         [] OTHER -> [made EXCEPT !.owner = KeyOwner(k), !.mode = "0400"]

KeySetup(k) ==
    /\ key_calls' = key_calls + 1
    /\ \E o \in {"ok", "dd_raises_nofile", "dd_raises_partial", "chown_raises",
                 "restart_raises"}, c \in KeyContents :
         /\ o \in {"dd_raises_nofile", "dd_raises_partial"} => KeyMissing(keys[k])
         /\ o = "restart_raises" => k = "munge"
         /\ keys' = [keys EXCEPT ![k] = SetupKey(keys[k], k, o, c)]
         /\ key_last' = [key |-> k, end |-> o]
    /\ UNCHANGED <<links, links0, cd_calls, cd_last,
                   ids, mig_owner, mig_owner0, renames, mig_end, opsVars>>
    /\ UNCHANGED <<runVars, scriptVars, fstabVars, chownVars>>

\* setup_jwt_key(), called on its own
setup_jwt_key ==
    /\ pc = "keys"
    /\ key_calls < MaxKeySetups
    /\ KeySetup("jwt")

\* setup_munge_key(), called on its own
setup_munge_key ==
    /\ pc = "keys"
    /\ key_calls < MaxKeySetups
    /\ KeySetup("munge")

\* a key file before the first run
KeyStates(k) ==
    {NoKey, KeyFile("k0", "root", "0644"), KeyFile("k0", KeyOwner(k), "0400")}

-----------------------------------------------------------------------------
(* Hybrid identity migration: change_uid_gid_slurm. *)

\* highest exit status of groupmod and usermod
MaxRenameStatus == 1

\* util.run(cmd) without check=False raises CalledProcessError on a
\* non-zero status
check_default == TRUE

MigDirs == {"home", "etc", "log", "slurm", "other"}

\* each directory holds one entry
MigTree == [n \in 1..2 |-> n - 1]

\* the four recursive_chown calls
Remap(i, own) ==
    [d \in DOMAIN own |->
        CASE d = "home" ->
               recursive_chown(own[d], MigTree, ChownArgs(i.uid, i.gid, NoId, NoId))
          [] d \in {"etc", "log", "slurm"} ->
               recursive_chown(own[d], MigTree,
                               ChownArgs(i.uid, i.gid, i.cur_uid, i.cur_gid))
          [] OTHER -> own[d]]

\* change_uid_gid_slurm on ids i, with exit status grc of groupmod and urc
\* of usermod: the commands run, how it ends, the ownership it leaves
Migration(i, grc, urc, own) ==
    LET g == i.cur_gid # i.gid
        u == i.cur_uid # i.uid
        gfail == g /\ grc # 0
        ufail == ~gfail /\ u /\ urc # 0
        cmds == (IF g THEN <<[cmd |-> "groupmod", rc |-> grc]>> ELSE <<>>)
                \o (IF u /\ ~gfail THEN <<[cmd |-> "usermod", rc |-> urc]>> ELSE <<>>)
    IN IF gfail \/ ufail
       THEN [renames |-> cmds,
             end |-> IF check_default THEN "raised" ELSE "aborted",
             owner |-> own]
       ELSE [renames |-> cmds, end |-> "returned",
             owner |-> IF g \/ u THEN Remap(i, own) ELSE own]

\* change_uid_gid_slurm(), called on its own
change_uid_gid_slurm ==
    /\ pc = "change_uid_gid_slurm"
    /\ mig_end = "none"
    /\ \E grc \in 0..MaxRenameStatus, urc \in 0..MaxRenameStatus :
         LET m == Migration(ids, grc, urc, mig_owner)
         IN /\ renames' = m.renames
            /\ mig_end' = m.end
            /\ mig_owner' = m.owner
    /\ UNCHANGED <<ids, mig_owner0, links, links0, cd_calls, cd_last,
                   keys, key_calls, key_last, opsVars>>
    /\ UNCHANGED <<runVars, scriptVars, fstabVars, chownVars>>

\* setup_compute calls change_uid_gid_slurm()
RoleMigrate ==
    /\ AtStep("change_uid_gid_slurm")
    /\ \E grc \in 0..MaxRenameStatus, urc \in 0..MaxRenameStatus :
         LET m == Migration(ids, grc, urc, mig_owner)
         IN /\ renames' = m.renames
            /\ mig_end' = m.end
            /\ mig_owner' = m.owner
            /\ IF m.end = "raised"
               THEN /\ Raise("CalledProcessError", "change_uid_gid_slurm")
                    /\ UNCHANGED <<steps, ip>>
               ELSE /\ steps' = Append(steps, "change_uid_gid_slurm")
                    /\ ip' = ip + 1
                    /\ UNCHANGED <<pc, exc>>
    /\ UNCHANGED <<args, source, attempts, slept, cfg, hybrid_setup,
                   dispatched, reg, motd, walls>>
    /\ UNCHANGED <<ids, mig_owner0, links, links0, cd_calls, cd_last,
                   keys, key_calls, key_last, opsVars>>
    /\ UNCHANGED <<scriptVars, fstabVars, chownVars>>

-----------------------------------------------------------------------------
(* The logging agent: setup_cloud_ops. *)

\* calls of setup_cloud_ops
MaxOpsCalls == 3

\* the document: the names under logging.processors, and the processor lists
\* of slurmlog_pipeline and slurmlog2_pipeline
OpsDoc(processors, p1, p2) ==
    [processors |-> processors, slurmlog_pipeline |-> p1, slurmlog2_pipeline |-> p2]

\* the document setup_cloud_ops writes back: the processor is set under its
\* name and the name is appended to both lists
AddClusterInfo(doc) ==
    OpsDoc(doc.processors \cup {"add_cluster_info"},
           Append(doc.slurmlog_pipeline, "add_cluster_info"),
           Append(doc.slurmlog2_pipeline, "add_cluster_info"))

\* setup_cloud_ops(), called on its own, any number of times: the agent is
\* not active and it returns, reading the document raises, the document is
\* written and the restart of the agent raises, or it returns
CallCloudOps ==
    /\ pc = "call_setup_cloud_ops"
    /\ ops_calls < MaxOpsCalls
    /\ ops_calls' = ops_calls + 1
    /\ \E o \in {"inactive", "load_raises", "restart_raises", "ok"} :
         /\ ops_last' = o
         /\ ops_doc' = IF o \in {"restart_raises", "ok"}
                       THEN AddClusterInfo(ops_doc) ELSE ops_doc
    /\ UNCHANGED <<links, links0, cd_calls, cd_last, keys, key_calls, key_last,
                   ids, mig_owner, mig_owner0, renames, mig_end>>
    /\ UNCHANGED <<runVars, scriptVars, fstabVars, chownVars>>

-----------------------------------------------------------------------------
(* Initial states and specifications. *)

ArgSets == {[hybrid |-> FALSE, bucket |-> "None"],
            [hybrid |-> TRUE, bucket |-> "None"],
            [hybrid |-> TRUE, bucket |-> "gs://bucket"]}

RunIdle ==
    /\ ip = 0
    /\ attempts = <<>>
    /\ slept = 0
    /\ hybrid_setup = FALSE
    /\ dispatched = "none"
    /\ steps = <<>>
    /\ reg = NoReg
    /\ exc = NoExc
    /\ motd = "initial"
    /\ walls = <<>>

ScriptsIdle ==
    /\ disk = {}
    /\ custom_scripts = <<>>
    /\ started = <<>>

FstabIdle ==
    /\ device_name = "state"
    /\ fstab = <<Line(RootLine, TRUE)>>
    /\ has_fs = FALSE
    /\ mounted = FALSE
    /\ ms_calls = 0
    /\ ms_raised = 0
    /\ formats = 0
    /\ mm_calls = 0
    /\ mm_raised = 0

ChownIdle ==
    /\ tree = [n \in 1..1 |-> 0]
    /\ owner = [n \in 1..1 |-> [uid |-> 10, gid |-> 10]]
    /\ owner0 = owner
    /\ owner_prev = owner
    /\ chown_args = ChownArgs(99, 99, NoId, NoId)
    /\ chown_calls = 0

LinkSet == {LinkPaths[i] : i \in DOMAIN LinkPaths}

DirsIdle ==
    /\ links = [sl \in LinkSet |-> NoLink]
    /\ links0 = links
    /\ cd_calls = 0
    /\ cd_last = "none"

KeysIdle ==
    /\ keys = [k \in KeyNames |-> NoKey]
    /\ key_calls = 0
    /\ key_last = [key |-> "none", end |-> "none"]

MigIdle ==
    /\ ids = [cur_uid |-> 10, cur_gid |-> 10, uid |-> 20, gid |-> 20]
    /\ mig_owner = [d \in MigDirs |-> [n \in 1..2 |-> [uid |-> 10, gid |-> 10]]]
    /\ mig_owner0 = mig_owner
    /\ renames = <<>>
    /\ mig_end = "none"

OpsIdle ==
    /\ ops_doc = OpsDoc({}, <<>>, <<>>)
    /\ ops_calls = 0
    /\ ops_last = "none"

HostIdle == DirsIdle /\ KeysIdle /\ MigIdle /\ OpsIdle

\* a bootstrap run, from the command line to its end
Init ==
    /\ args \in ArgSets
    /\ pc = "entry"
    /\ source \in RunPlans(MaxRunFetchFailures)
    /\ cfg = NoCfg
    /\ RunIdle /\ ScriptsIdle /\ FstabIdle /\ ChownIdle /\ HostIdle

Next ==
    \/ Entry_main
    \/ start_motd
    \/ get_config
    \/ Sleep
    \/ setup_cloud_ops
    \/ configure_dirs
    \/ gen_controller_configs
    \/ Dispatch
    \/ RoleStep
    \/ install_custom_scripts
    \/ CallScripts
    \/ run_custom_scripts
    \/ RunScript
    \/ ScriptsReturn
    \/ RoleMount
    \/ RoleMungeMount
    \/ RoleMigrate
    \/ sacctmgr_add_cluster
    \/ RoleReturn
    \/ end_motd
    \/ Handler

Spec == Init /\ [][Next]_vars

\* get_config against a store that fails some number of times
InitConfig ==
    /\ args \in ArgSets
    /\ pc = "get_config"
    /\ source \in Plans(MaxFetchFailures)
    /\ cfg = NoCfg
    /\ RunIdle /\ ScriptsIdle /\ FstabIdle /\ ChownIdle /\ HostIdle

NextConfig == get_config \/ Sleep

SpecConfig == InitConfig /\ [][NextConfig]_vars

\* the same under the scheduling of a single thread that never stops on its
\* own: a pass of the loop or a sleep that can run does run
SpecConfigFair == SpecConfig /\ WF_vars(NextConfig)

\* run_custom_scripts under any configuration and any set of entries
InitScripts ==
    /\ args = [hybrid |-> FALSE, bucket |-> "None"]
    /\ pc = "run_custom_scripts"
    /\ source = <<>>
    /\ cfg \in ScriptConfigs
    /\ RunIdle /\ FstabIdle /\ ChownIdle /\ HostIdle
    /\ disk \in Disks(MaxFiles)
    /\ custom_scripts = <<>>
    /\ started = <<>>

NextScripts == run_custom_scripts \/ RunScript \/ ScriptsReturn

SpecScripts == InitScripts /\ [][NextScripts]_vars

\* mount_save_state_disk called repeatedly on any mount table
InitFstab ==
    /\ args = [hybrid |-> FALSE, bucket |-> "None"]
    /\ pc = "mount_save_state_disk"
    /\ source = <<>>
    /\ cfg = Config("controller", [k \in {} |-> 0], FALSE, TRUE, FALSE)
    /\ RunIdle /\ ScriptsIdle /\ ChownIdle /\ HostIdle
    /\ device_name \in DeviceNames
    /\ fstab \in Files(device_name, MaxFstabLines)
    /\ has_fs \in BOOLEAN
    /\ mounted = FALSE
    /\ ms_calls = 0
    /\ ms_raised = 0
    /\ formats = 0
    /\ mm_calls = 0
    /\ mm_raised = 0

SpecFstab == InitFstab /\ [][mount_save_state_disk]_vars

\* recursive_chown called repeatedly on any subtree
InitChown ==
    /\ args = [hybrid |-> FALSE, bucket |-> "None"]
    /\ pc = "recursive_chown"
    /\ source = <<>>
    /\ cfg = NoCfg
    /\ RunIdle /\ ScriptsIdle /\ FstabIdle /\ HostIdle
    /\ tree \in Trees(MaxNodes)
    /\ owner \in [DOMAIN tree -> [uid : Uids, gid : Gids]]
    /\ owner0 = owner
    /\ owner_prev = owner
    /\ chown_args \in ChownArgSet
    /\ chown_calls = 0

SpecChown == InitChown /\ [][CallChown]_vars

\* mount_munge_key_disk called repeatedly on any mount table
InitMunge ==
    /\ args = [hybrid |-> FALSE, bucket |-> "None"]
    /\ pc = "mount_munge_key_disk"
    /\ source = <<>>
    /\ cfg = Config("controller", [k \in {} |-> 0], FALSE, TRUE, FALSE)
    /\ RunIdle /\ ScriptsIdle /\ ChownIdle /\ HostIdle
    /\ device_name = "state"
    /\ fstab \in MungeFiles(MaxFstabLines)
    /\ has_fs = TRUE
    /\ mounted = TRUE
    /\ ms_calls = 0
    /\ ms_raised = 0
    /\ formats = 0
    /\ mm_calls = 0
    /\ mm_raised = 0

SpecMunge == InitMunge /\ [][mount_munge_key_disk]_vars

\* configure_dirs called repeatedly on any state of the link paths
InitDirs ==
    /\ args = [hybrid |-> FALSE, bucket |-> "None"]
    /\ pc = "call_configure_dirs"
    /\ source = <<>>
    /\ cfg = Config("controller", [k \in {} |-> 0], FALSE, FALSE, FALSE)
    /\ RunIdle /\ ScriptsIdle /\ FstabIdle /\ ChownIdle /\ KeysIdle /\ MigIdle /\ OpsIdle
    /\ links \in [LinkSet -> {NoLink, [kind |-> "dir", to |-> "none"],
                               Symlink("slurmdirs.etc"), Symlink("/old/live"),
                               Symlink("/old/gone")}]
    /\ links0 = links
    /\ cd_calls = 0
    /\ cd_last = "none"

SpecDirs == InitDirs /\ [][CallConfigureDirs]_vars

\* the key setups of successive runs, on any state of the key files
InitKeys ==
    /\ args = [hybrid |-> FALSE, bucket |-> "None"]
    /\ pc = "keys"
    /\ source = <<>>
    /\ cfg = Config("controller", [k \in {} |-> 0], FALSE, FALSE, FALSE)
    /\ RunIdle /\ ScriptsIdle /\ FstabIdle /\ ChownIdle /\ DirsIdle /\ MigIdle /\ OpsIdle
    /\ keys \in {[k \in KeyNames |-> IF k = "jwt" THEN j ELSE m] :
                    j \in KeyStates("jwt"), m \in KeyStates("munge")}
    /\ key_calls = 0
    /\ key_last = [key |-> "none", end |-> "none"]

SpecKeys == InitKeys /\ [][setup_jwt_key \/ setup_munge_key]_vars

\* change_uid_gid_slurm on any ids and any ownership of the directories
InitMigrate ==
    /\ args = [hybrid |-> FALSE, bucket |-> "None"]
    /\ pc = "change_uid_gid_slurm"
    /\ source = <<>>
    /\ cfg = Config("compute", [k \in {} |-> 0], TRUE, FALSE, FALSE)
    /\ RunIdle /\ ScriptsIdle /\ FstabIdle /\ ChownIdle /\ DirsIdle /\ KeysIdle /\ OpsIdle
    /\ ids \in {[cur_uid |-> 10, cur_gid |-> 10, uid |-> u, gid |-> g] :
                  u \in {10, 20}, g \in {10, 20}}
    \* every directory is slurm's; its entry is slurm's, slurm's with another
    \* group, or a third party's
    /\ mig_owner \in
         {[d \in MigDirs |-> [n \in 1..2 |-> IF n = 1 THEN [uid |-> 10, gid |-> 10]
                                              ELSE f[d]]] :
             f \in [MigDirs -> {[uid |-> 10, gid |-> 10], [uid |-> 10, gid |-> 20],
                                [uid |-> 30, gid |-> 20]}]}
    /\ mig_owner0 = mig_owner
    /\ renames = <<>>
    /\ mig_end = "none"

SpecMigrate == InitMigrate /\ [][change_uid_gid_slurm]_vars

\* setup_cloud_ops called repeatedly, on the document the agent ships or
\* one an earlier run wrote
InitCloudOps ==
    /\ args = [hybrid |-> FALSE, bucket |-> "None"]
    /\ pc = "call_setup_cloud_ops"
    /\ source = <<>>
    /\ cfg = Config("controller", [k \in {} |-> 0], FALSE, FALSE, FALSE)
    /\ RunIdle /\ ScriptsIdle /\ FstabIdle /\ ChownIdle
    /\ DirsIdle /\ KeysIdle /\ MigIdle
    /\ ops_doc \in {OpsDoc({}, p1, p2) : p1 \in {<<>>, <<"batch">>},
                                          p2 \in {<<>>, <<"batch">>}}
                  \cup {AddClusterInfo(OpsDoc({}, <<"batch">>, <<"batch">>))}
    /\ ops_calls = 0
    /\ ops_last = "none"

SpecCloudOps == InitCloudOps /\ [][CallCloudOps]_vars

-----------------------------------------------------------------------------
(* Properties. *)

\* lines of the mount table that are the entry of the state disk
EntryLines(dev, file) ==
    {i \in DOMAIN file :
        /\ Len(file[i].fields) >= 3
        /\ SubSeq(file[i].fields, 1, 3) = <<disk_name(dev), mount_point, fs_type>>}

\* C1: once mount_save_state_disk has returned twice or more with the same
\* arguments, /etc/fstab holds exactly one line for the entry (device, mount
\* point, ext4).
C1_ExactlyOneEntryLine ==
    ms_calls >= 2 => Cardinality(EntryLines(device_name, fstab)) = 1

\* C2: the scripts started are, in order, a prefix of the discovered list;
\* a script that does not end with a zero status is the last one started,
\* and the exception in flight is the one raised for it; run_custom_scripts
\* returns only after every script ended with a zero status.
C2_FailFast ==
    /\ Len(started) <= Len(custom_scripts)
    /\ \A k \in DOMAIN started : started[k].script = custom_scripts[k]
    /\ \A k \in DOMAIN started :
         started[k].outcome # "ok" =>
            /\ k = Len(started)
            /\ pc = "except"
            /\ exc = [type |-> ExcOfOutcome(started[k].outcome),
                      site |-> "run_custom_scripts", script |-> k]
    /\ pc = "role" =>
         /\ Len(started) = Len(custom_scripts)
         /\ \A k \in DOMAIN started : started[k].outcome = "ok"

\* three scripts, the second ends with a non-zero status
C2_Witness ==
    /\ Len(custom_scripts) = 3
    /\ Len(started) = 2
    /\ started[1].outcome = "ok"
    /\ started[2].outcome = "nonzero"
    /\ pc = "except"

Failed(outcomes) == {i \in DOMAIN outcomes : outcomes[i] # "ok"}

\* C3: against a store that fails with the not-ready condition n times and
\* then succeeds, get_config sleeps 5 seconds after each failed attempt and
\* before the next one, and returns after n + 1 attempts and 5 * n seconds
\* of sleep with the configuration installed.
C3_RetriesAndBackoff ==
    (\A i \in Failed(attempts) : attempts[i] = "DeffetiveStoredConfigError") =>
        LET n == Cardinality(Failed(attempts))
        IN /\ pc = "get_config" => Len(attempts) = n /\ slept = 5 * n
           /\ pc = "sleep" => Len(attempts) = n /\ slept = 5 * (n - 1)
           /\ pc \notin {"get_config", "sleep"} =>
                 /\ cfg # NoCfg
                 /\ Len(attempts) = n + 1
                 /\ attempts[n + 1] = "ok"
                 /\ slept = 5 * n
                 /\ pc = AfterConfig
           /\ cfg # NoCfg => pc \notin {"get_config", "sleep"}

\* not ready twice, then the configuration
C3_Witness ==
    /\ attempts = <<"DeffetiveStoredConfigError", "DeffetiveStoredConfigError", "ok">>
    /\ slept = 10
    /\ cfg # NoCfg

CategoryDirs == {"controller.d", "compute.d", "nodeset.d", "login.d"}

KeyOfCategory(d) ==
    CASE d = "controller.d" -> "controller_startup_scripts_timeout"
      [] d = "login.d" -> "login_startup_scripts_timeout"
      [] OTHER -> "compute_startup_scripts_timeout"

\* C4: every script started ran under the timeout of a category key: the
\* key's value when it is positive, no timeout when it is zero or negative,
\* 300 seconds when the key is not in the configuration; the key is the one
\* of the script's category directory when its path names no other one.
C4_TimeoutPrecedence ==
    \A k \in DOMAIN started :
        LET s == started[k]
        IN /\ s.key \in TimeoutKeys
           /\ (\A i \in DOMAIN s.script.sub : s.script.sub[i] \notin CategoryDirs)
                 => s.key = KeyOfCategory(s.script.top)
           /\ s.key \notin DOMAIN cfg.timeouts =>
                 s.timeout = [bounded |-> TRUE, secs |-> 300]
           /\ s.key \in DOMAIN cfg.timeouts =>
                 /\ cfg.timeouts[s.key] > 0 =>
                       s.timeout = [bounded |-> TRUE, secs |-> cfg.timeouts[s.key]]
                 /\ cfg.timeouts[s.key] <= 0 => s.timeout = [bounded |-> FALSE, secs |-> 0]

\* a login script ran without a timeout under a login key set to zero,
\* while the other two keys are absent
C4_Witness ==
    /\ DOMAIN cfg.timeouts = {"login_startup_scripts_timeout"}
    /\ cfg.timeouts["login_startup_scripts_timeout"] = 0
    /\ \E k \in DOMAIN started :
         /\ started[k].script.top = "login.d"
         /\ started[k].key = "login_startup_scripts_timeout"
         /\ ~started[k].timeout.bounded

InSeq(x, q) == \E i \in DOMAIN q : q[i] = x

RoleDirs == {custom_dirs(cfg)[i] : i \in DOMAIN custom_dirs(cfg)}

\* C5: once the list is built, no script in it and no script started has a
\* name ending in ".disabled", and every other regular file below the role's
\* category directories is in the list.
C5_DisabledNeverRun ==
    pc # "run_custom_scripts" =>
        /\ \A k \in DOMAIN custom_scripts :
              custom_scripts[k].name[Len(custom_scripts[k].name)] # "disabled"
        /\ \A k \in DOMAIN started :
              started[k].script.name[Len(started[k].script.name)] # "disabled"
        /\ \A e \in disk :
              (/\ e.top \in RoleDirs
               /\ e.is_file
               /\ e.name[Len(e.name)] # "disabled") => InSeq(e, custom_scripts)

\* a disabled file sits beside a script that ran
C5_Witness ==
    /\ \E e \in disk :
         e.top \in RoleDirs /\ e.is_file /\ e.name[Len(e.name)] = "disabled"
    /\ started # <<>>
    /\ pc = "role"

\* C6: after recursive_chown with a guard, an entry whose uid was
\* previous_uid has the new uid and every other entry keeps its uid; the
\* same for the gid and previous_gid.
C6_GuardedRemap ==
    chown_calls = 1 =>
        \A e \in DOMAIN tree :
            /\ chown_args.previous_uid # -1 =>
                  owner[e].uid = IF owner0[e].uid = chown_args.previous_uid
                                 THEN chown_args.uid ELSE owner0[e].uid
            /\ chown_args.previous_gid # -1 =>
                  owner[e].gid = IF owner0[e].gid = chown_args.previous_gid
                                 THEN chown_args.gid ELSE owner0[e].gid

\* entries with uids 10, 20 and 30, remapped from 10 to 99
C6_Witness ==
    /\ chown_calls = 1
    /\ chown_args = ChownArgs(99, 10, 10, 20)
    /\ {owner0[e].uid : e \in DOMAIN tree} = {10, 20, 30}
    /\ {owner[e].uid : e \in DOMAIN tree} = {99, 20, 30}

\* C7: a second recursive_chown with the same arguments changes no uid and
\* no gid.
C7_SecondCallNoOp ==
    chown_calls >= 2 => owner = owner_prev

\* the first call changed an entry below the root, the second has run
C7_Witness ==
    /\ chown_calls = 2
    /\ \E e \in DOMAIN tree : e # 1 /\ owner[e] # owner0[e]
    /\ chown_args.previous_uid # -1

MainSteps == {"start_motd", "setup_cloud_ops", "configure_dirs", "end_motd"}

\* C8: in a run of main() whose configuration carries a role other than
\* controller, compute and login, no role procedure is called and no step
\* of one runs, no hook script is listed or started, the dispatch raises
\* nothing (after it only end_motd's broadcast can), and the run that ends
\* has written and broadcast the setup-complete banner.
C8_UnknownRole ==
    (/\ ~args.hybrid
     /\ cfg # NoCfg
     /\ cfg.role \notin {"controller", "compute", "login"}) =>
        /\ dispatched \in {"none", "log_fatal"}
        /\ \A i \in DOMAIN steps : steps[i] \in MainSteps
        /\ custom_scripts = <<>> /\ started = <<>>
        /\ dispatched = "log_fatal" =>
              /\ pc \in {"end_motd", "complete", "except", "failed", "crashed"}
              /\ exc # NoExc => exc.site = "end_motd"
        /\ pc = "complete" =>
              /\ dispatched = "log_fatal"
              /\ motd = "complete"
              /\ InSeq("complete", walls)

C8_Witness ==
    /\ ~args.hybrid
    /\ cfg # NoCfg
    /\ cfg.role = "gpu"
    /\ dispatched = "log_fatal"
    /\ pc = "complete"
    /\ motd = "complete"

RegistrationContinued ==
    /\ InSeq("sacctmgr_add_cluster", steps)
    /\ exc.site # "sacctmgr_add_cluster"

RegistrationEscalated ==
    /\ exc = [type |-> "CalledProcessError", site |-> "sacctmgr_add_cluster",
              script |-> 0]
    /\ ~InSeq("sacctmgr_add_cluster", steps)
    /\ ~InSeq("slurmctld", steps)

\* C9 as stated: "already exists" with a status of 1 is a success, and any
\* status above 1 is escalated.
C9_AnyHigherStatusEscalated ==
    reg.seen =>
        /\ (reg.already /\ reg.returncode = 1) => RegistrationContinued
        /\ reg.returncode > 1 => RegistrationEscalated

\* C9, amended: the registration is a success when its output contains
\* "already exists", whatever its status, and when its status is at most 1;
\* it is escalated when its status is above 1 and its output does not
\* contain "already exists".
C9_Registration ==
    reg.seen =>
        /\ (reg.already \/ reg.returncode <= 1) => RegistrationContinued
        /\ (~reg.already /\ reg.returncode > 1) => RegistrationEscalated
        /\ (/\ RegistrationContinued
            /\ pc = "role"
            /\ steps[Len(steps)] = "sacctmgr_add_cluster")
              => RoleSteps(dispatched, cfg)[ip] = "slurmctld"

\* "already exists" with a status of 2, and slurmctld was set up after it
C9_Witness ==
    /\ reg.seen /\ reg.already /\ reg.returncode = 2
    /\ InSeq("slurmctld", steps)

\* C10: in a run of main(), once an exception is raised no further step
\* runs, no script starts, the configuration is not fetched again and the
\* setup-complete banner is not written; the handler writes and broadcasts
\* the failure banner; a run that ends without an exception has written the
\* setup-complete banner.
C10_States ==
    ~args.hybrid =>
        /\ exc # NoExc => pc \in {"except", "failed", "crashed"}
        /\ pc \in {"failed", "crashed"} =>
              /\ exc # NoExc
              /\ motd = "failed"
              /\ walls # <<>> /\ walls[Len(walls)] = "failed"
        /\ pc = "complete" =>
              /\ exc = NoExc
              /\ motd = "complete"
              /\ steps[Len(steps)] = "end_motd"

C10_Steps ==
    (~args.hybrid /\ exc # NoExc) =>
        /\ steps' = steps
        /\ started' = started
        /\ attempts' = attempts
        /\ exc' = exc
        /\ motd' # "complete"
        /\ pc' \in {"failed", "crashed"}

C10_FailOrComplete == [](C10_States) /\ [][C10_Steps]_vars

\* a script could not be executed on a node with its configuration, and
\* the handler has signalled the failure
C10_Witness ==
    /\ ~args.hybrid
    /\ cfg # NoCfg
    /\ exc.type = "OSError"
    /\ pc = "failed"
    /\ motd = "failed"

\* C11 as stated: in a run started with --hybrid, with or without a bucket,
\* a failure leaves /etc/motd as it was and broadcasts nothing.
C11_HybridFailureSilent ==
    (args.hybrid /\ pc \in {"failed", "crashed"}) =>
        motd = "initial" /\ walls = <<>>

\* the directories the claim lists for each role, in order
C12_Dirs(role) ==
    CASE role = "controller" -> <<"controller.d">>
      [] role = "compute" -> <<"compute.d", "nodeset.d">>
      [] role = "login" -> <<"login.d">>
      [] OTHER -> <<>>

C12_DirIndex(p) ==
    CHOOSE i \in DOMAIN C12_Dirs(cfg.role) : C12_Dirs(cfg.role)[i] = p.top

\* C12: every script listed or started lies below a category directory of
\* the node's own role (controller: controller.d; compute: compute.d and
\* nodeset.d; login: login.d; any other role: none), and the scripts come in
\* the order of these directories, every compute.d script before any
\* nodeset.d script.
C12_OwnRoleOnly ==
    /\ \A k \in DOMAIN custom_scripts :
         \E i \in DOMAIN C12_Dirs(cfg.role) :
            C12_Dirs(cfg.role)[i] = custom_scripts[k].top
    /\ \A j, k \in DOMAIN custom_scripts :
         j < k => C12_DirIndex(custom_scripts[j]) <= C12_DirIndex(custom_scripts[k])
    /\ \A k \in DOMAIN started :
         /\ started[k].script = custom_scripts[k]
         /\ \E i \in DOMAIN C12_Dirs(cfg.role) :
              C12_Dirs(cfg.role)[i] = started[k].script.top
    /\ cfg.role \notin {"controller", "compute", "login"} => started = <<>>

\* a compute node holding scripts of three categories ran its compute.d
\* script and then its nodeset.d script, and nothing of controller.d
C12_Witness ==
    /\ cfg.role = "compute"
    /\ \E e \in disk : e.top = "controller.d" /\ Selected(e)
    /\ Len(started) = 2
    /\ started[1].script.top = "compute.d"
    /\ started[2].script.top = "nodeset.d"
    /\ pc = "role"

C13_States ==
    /\ pc \in {"get_config", "sleep", AfterConfig}
    /\ exc = NoExc
    /\ pc = AfterConfig <=> cfg # NoCfg
    /\ pc = AfterConfig => attempts # <<>> /\ attempts[Len(attempts)] = "ok"
    /\ \A i \in DOMAIN attempts : attempts[i] = "ok" => i = Len(attempts)
    /\ slept = sleep_seconds * Cardinality(Failed(attempts))
               - (IF pc = "sleep" THEN sleep_seconds ELSE 0)

C13_Steps ==
    /\ (attempts' # attempts /\ attempts'[Len(attempts')] # "ok") => pc' = "sleep"
    /\ pc = "sleep" =>
          /\ pc' = "get_config"
          /\ slept' = slept + sleep_seconds
          /\ attempts' = attempts

C13_Returns == <>(pc = AfterConfig /\ cfg # NoCfg)

\* C13: get_config raises nothing to its caller and is back at its caller
\* exactly when a fetched configuration is installed; every failed attempt,
\* not-ready or any other exception, is followed by one sleep of 5 seconds
\* and then another attempt; against a store that eventually serves the
\* configuration, get_config eventually returns.
C13_NeverFailsEventuallyReturns ==
    [](C13_States) /\ [][C13_Steps]_vars /\ C13_Returns

\* an unexpected exception, then not ready, then the configuration
C13_Witness ==
    /\ attempts = <<"Exception", "DeffetiveStoredConfigError", "ok">>
    /\ slept = 10
    /\ cfg # NoCfg
    /\ pc = AfterConfig

\* C14 as stated: when every link path holds nothing or a symbolic link,
\* whatever it points to, configure_dirs does not fail on a link and every
\* link path is afterwards a symbolic link to its target, after one call
\* and after any further call.
C14_SymlinksReconciled ==
    (/\ cd_calls >= 1
     /\ cd_last # "mkdirp_raises"
     /\ \A sl \in LinkSet : links0[sl].kind \in {"absent", "symlink"}) =>
        /\ cd_last # "FileExistsError"
        /\ \A sl \in LinkSet : links[sl] = Symlink(LinkTarget(sl))

\* lines of the mount table that are the bind mount of the munge directory
MungeLines(file) ==
    {i \in DOMAIN file :
        /\ Len(file[i].fields) >= 2
        /\ SubSeq(file[i].fields, 1, 2) = <<state_disk_dir, munge_mount_point>>}

\* C15 as stated: once mount_munge_key_disk has returned, any number of
\* times, /etc/fstab holds exactly one line for the bind mount (munge
\* directory of the state disk, munge mount point).
C15_ExactlyOneBindLine ==
    mm_calls >= 1 => Cardinality(MungeLines(fstab)) = 1

RemappedDirs == {"home", "etc", "log", "slurm"}

\* C16 as stated: change_uid_gid_slurm changes ownership only if it ran a
\* rename, only below home, configuration, logs and the resource root, and
\* there an entry whose uid is not slurm's previous uid keeps its uid and an
\* entry whose gid is not slurm's previous gid keeps its gid.
C16_GuardedMigration ==
    mig_end # "none" =>
        /\ renames = <<>> => mig_owner = mig_owner0
        /\ \A d \in MigDirs \ RemappedDirs : mig_owner[d] = mig_owner0[d]
        /\ \A d \in RemappedDirs : \A n \in DOMAIN mig_owner[d] :
              /\ mig_owner0[d][n].uid # ids.cur_uid =>
                    mig_owner[d][n].uid = mig_owner0[d][n].uid
              /\ mig_owner0[d][n].gid # ids.cur_gid =>
                    mig_owner[d][n].gid = mig_owner0[d][n].gid

\* C17: a key setup that returns leaves the key file in place, owned by its
\* owning identity (slurm for the JWT key, munge for the munge key) with
\* mode 0400; and no key setup, returning or raising, changes the content
\* of a key file that exists or removes it.
C17_States ==
    key_last.end = "ok" =>
        /\ keys[key_last.key].exists
        /\ keys[key_last.key].owner = KeyOwner(key_last.key)
        /\ keys[key_last.key].mode = "0400"

C17_Steps ==
    \A k \in KeyNames :
        keys[k].exists =>
            /\ keys'[k].exists
            /\ keys'[k].content = keys[k].content

C17_KeysWrittenOnce == [](C17_States) /\ [][C17_Steps]_vars

\* the JWT key was generated by one setup and found by the next, which
\* returned; the munge key was never set up
C17_Witness ==
    /\ key_calls = 2
    /\ keys["jwt"].content \in KeyContents
    /\ key_last = [key |-> "jwt", end |-> "ok"]
    /\ keys["munge"] = NoKey

\* C18 as stated: groupmod runs before usermod, and when either ends with a
\* non-zero status nothing is raised: no later rename runs, no ownership
\* changes, change_uid_gid_slurm returns and setup_compute goes on.
C18_RenameSoftFail ==
    /\ Len(renames) = 2 =>
          renames[1].cmd = "groupmod" /\ renames[2].cmd = "usermod"
    /\ (\E i \in DOMAIN renames : renames[i].rc # 0) =>
          /\ renames[Len(renames)].rc # 0
          /\ mig_owner = mig_owner0
          /\ mig_end = "aborted"
          /\ exc.site # "change_uid_gid_slurm"
          /\ InSeq("change_uid_gid_slurm", steps)

C19_Steps ==
    /\ has_fs => formats' = formats /\ has_fs'
    /\ (~has_fs /\ ms_calls' = ms_calls + 1) => formats' = formats + 1 /\ has_fs'

\* C19: a call of mount_save_state_disk on a device that carries a
\* filesystem does not format it, a call that returns on a device without
\* one has formatted it, and over any number of calls, returning or
\* raising, the device is formatted at most once.
C19_FormatOnce == [](formats <= 1) /\ [][C19_Steps]_vars

\* a blank device, formatted by the first of three calls, one of which raised
C19_Witness ==
    /\ formats = 1
    /\ ms_calls = 2
    /\ ms_raised = 1
    /\ has_fs

\* C20: in a run of main() the pending banner is written and broadcast
\* before the first fetch attempt and is the banner during the whole wait
\* for the configuration; the banner is the setup-complete body only once
\* the dispatched role procedure has returned without raising; the /home
\* note is never broadcast on the controller and a run that completes has
\* broadcast it exactly when the role is not controller.
C20_BannerLifecycle ==
    ~args.hybrid =>
        /\ attempts # <<>> =>
              /\ steps # <<>> /\ steps[1] = "start_motd"
              /\ walls # <<>> /\ walls[1] = "pending"
        /\ pc \in {"get_config", "sleep"} => motd = "pending"
        /\ motd = "complete" =>
              /\ dispatched # "none"
              /\ dispatched # "log_fatal" => ip > Len(RoleSteps(dispatched, cfg))
              /\ exc # NoExc => exc.site = "end_motd"
        /\ InSeq("home", walls) => ~is_controller(cfg) /\ motd # "pending"
        /\ pc = "complete" =>
              /\ motd = "complete"
              /\ InSeq("home", walls) <=> ~is_controller(cfg)

\* a login node waited once for its configuration and completed
C20_Witness ==
    /\ ~args.hybrid
    /\ attempts = <<"DeffetiveStoredConfigError", "ok">>
    /\ cfg.role = "login"
    /\ pc = "complete"
    /\ walls = <<"pending", "complete", "home">>

\* position of a step among the steps completed
StepPos(name) == CHOOSE i \in DOMAIN steps : steps[i] = name

\* the steps the claim orders, as setup_controller runs them
C21_Order == <<"run_custom_scripts", "slurmdbd", "sacctmgr_add_cluster",
               "slurmctld", "slurmrestd", "nfs_server", "setup_nfs_exports">>

\* C21: on the controller, every step of the list hook scripts, slurmdbd,
\* cluster registration, slurmctld, slurmrestd, NFS server, NFS exports
\* that has completed did so after all the ones before it in the list, in
\* that order; and once one of them has raised, neither the NFS server
\* step nor the NFS exports step completes in that run.
C21_NfsLast ==
    dispatched = "setup_controller" =>
        /\ \A k \in DOMAIN C21_Order :
              InSeq(C21_Order[k], steps) =>
                 \A j \in 1..(k - 1) :
                    /\ InSeq(C21_Order[j], steps)
                    /\ StepPos(C21_Order[j]) < StepPos(C21_Order[k])
        /\ (\E k \in 1..5 : exc.site = C21_Order[k]) =>
              /\ ~InSeq("nfs_server", steps)
              /\ ~InSeq("setup_nfs_exports", steps)
              /\ pc \in {"except", "failed", "crashed"}

\* a controller ran a hook script and completed, the exports set up last
C21_Witness ==
    /\ dispatched = "setup_controller"
    /\ started # <<>>
    /\ InSeq("setup_nfs_exports", steps)
    /\ pc = "complete"

Count(x, q) == Cardinality({i \in DOMAIN q : q[i] = x})

\* C22 as stated: after any number of calls of setup_cloud_ops that found
\* the agent active and returned, each of the two pipelines lists the
\* cluster-info processor exactly once.
C22_ProcessorOnce ==
    ops_last = "ok" =>
        /\ Count("add_cluster_info", ops_doc.slurmlog_pipeline) = 1
        /\ Count("add_cluster_info", ops_doc.slurmlog2_pipeline) = 1

\* C23 as stated: every script started ran under the timeout key of the
\* category directory it was found under, whatever the directories between
\* that directory and the script are called.
C23_KeyOfDiscoveryDir ==
    \A k \in DOMAIN started :
        started[k].key = KeyOfCategory(started[k].script.top)

====
